---- MODULE Spec2Model ----
(***************************************************************************)
(* A model of okaara's command tree dispatcher (okaara/cli.py): Section    *)
(* trees assembled with add_* / create_* / remove_* calls, the resolver    *)
(* Cli._find_closest_match, Command option assembly and execution with the *)
(* default parser, UnknownArgsParser or PassThroughParser, and Cli.run.    *)
(*                                                                         *)
(* Strings are modelled as sequences of one-character strings, so that     *)
(* str.startswith and str.lstrip are computed, not assumed.                *)
(***************************************************************************)
EXTENDS Integers, Sequences, FiniteSets, TLC

VARIABLES
    sections,   \* heap of Section objects: id -> [name, subsections, commands]
    commands,   \* heap of Command objects placed in trees: id -> [name]
    last,       \* the last assembly call made on a Section and how it ended
    res,        \* the last call of _find_closest_match: its inputs and its result
    options,        \* Command.options of the Command under assembly
    groups,         \* heap of OptionGroup objects: id -> its options list
    option_groups,  \* Command.option_groups: OptionGroup ids in the order added
    exec,           \* the last call of Command.execute: its input and its outcome
    method,         \* Command.method: what the action of the Command returns
    parser,         \* Command.parser: None or the parser object given to the Command
    ran,            \* the last call of Cli.run: its input and how it ended
    parse_result    \* the last call of UnknownArgsParser.parse_args: input and result

treeVars == <<sections, commands, last, res>>

commandVars == <<options, groups, option_groups, exec>>

runVars == <<method, parser, ran, parse_result>>

vars == <<sections, commands, last, res, options, groups, option_groups, exec,
          method, parser, ran, parse_result>>

(***************************************************************************)
(* Bounds of the model.                                                    *)
(***************************************************************************)
MaxSections == 1    \* Section objects besides the root, in Spec
MaxCommands == 1    \* Command objects, in Spec
MaxArgs == 2        \* length of an argument vector given to the resolver, in Spec
TreeSections == 2   \* Sections created besides the root, in SpecTree
TreeCommands == 1   \* Commands created, in SpecTree
TreeArgs == 3       \* length of an argument vector given to the resolver, in SpecTree
MaxOptions == 2     \* Options added to the Command and its OptionGroup, in SpecCommand
MaxGroupAdds == 1   \* calls of add_option_group, in SpecCommand
MaxCommandArgs == 2 \* length of an argument vector given to execute, in SpecCommand
RunSections == 1    \* Sections created under the root, in SpecRun
RunOptions == 1     \* Options added to the Command, in SpecRun
RunArgs == 2        \* length of an argument vector given to Cli.run, in SpecRun
HookOptions == 2    \* Options created on the Command, in SpecHooks
HookArgs == 3       \* length of an argument vector given to Cli.run, in SpecHooks
MultiOptions == 2   \* Options created on the Command, in SpecMultiple
MultiArgs == 4      \* length of an argument vector given to execute, in SpecMultiple
UnknownArgs == 4    \* length of an argument vector given to parse_args, in SpecUnknown
PipeOptions == 2    \* Options added to the Command and its OptionGroup, in SpecPipeline
PipeGiven == 2      \* options with their value in an argument vector, in SpecPipeline

(***************************************************************************)
(* Strings.                                                                *)
(***************************************************************************)
Dash == "-"

\* str.startswith(prefix) for a one-character prefix
startswith(s, ch) == Len(s) > 0 /\ s[1] = ch

\* list slicing args[1:]; an empty list slices to an empty list
Rest(args) == SubSeq(args, 2, Len(args))

\* The names given to sections and commands, and the tokens of argument
\* vectors: a plain name and one that begins with the option prefix.
Names == { <<"a">>, <<"-", "x">> }

RootName == << >>

None == [kind |-> "None"]
SectionRef(id) == [kind |-> "Section", id |-> id]
CommandRef(id) == [kind |-> "Command", id |-> id]

RootId == 0

ArgVectors(max) == UNION { [1..n -> Names] : n \in 0..max }

(***************************************************************************)
(* Section: lookups and the structural check.                              *)
(***************************************************************************)
\* Section.__init__
NewSectionObject(name) == [name |-> name, subsections |-> << >>, commands |-> << >>]

\* Section.find_subsection
find_subsection(section, name) ==
    IF name \in DOMAIN section.subsections
    THEN SectionRef(section.subsections[name])
    ELSE None

\* Section.find_command
find_command(section, name) ==
    IF name \in DOMAIN section.commands
    THEN CommandRef(section.commands[name])
    ELSE None

\* A mutant of verify_new_structure: only subsections are looked at.
verify_new_structure_subsections_only(section, name) ==
    name \in DOMAIN section.subsections

\* Section.verify_new_structure: TRUE when InvalidStructure is raised
verify_new_structure(section, name) ==
    \/ name \in DOMAIN section.subsections
    \/ name \in DOMAIN section.commands

\* dict assignment d[key] = value
DictSet(d, key, value) == (key :> value) @@ d

\* A mutant of DictPop: the key stays in the dict.
DictPop_nothing(d, key) == d

\* dict.pop(key, None): the dict without the key
DictPop(d, key) == [k \in (DOMAIN d) \ {key} |-> d[k]]

NoResult == [state |-> "none"]

NoCall == [op |-> "none"]

\* How an assembly call on Section p with the name `name` ended
Raised(op, p, name) ==
    [op |-> op, section |-> p, name |-> name, raised |-> "InvalidStructure"]

Returned(op, p, name) ==
    [op |-> op, section |-> p, name |-> name, raised |-> "none"]

\* How a remove call on Section p with the name `name` ended: it returned
\* value, what dict.pop(name, None) gave
Popped(op, p, name, value) ==
    [op |-> op, section |-> p, name |-> name, raised |-> "none", value |-> value]

(***************************************************************************)
(* Assembly calls.                                                         *)
(***************************************************************************)
\* Section(name, description): a Section that belongs to no tree yet
NewSection(name) ==
    /\ sections' = (Cardinality(DOMAIN sections) :> NewSectionObject(name)) @@ sections
    /\ last' = Returned("Section", Cardinality(DOMAIN sections), name)
    /\ res' = NoResult
    /\ UNCHANGED commands

\* Command(name, description, method): a Command that belongs to no Section yet
NewCommand(name) ==
    /\ commands' = ((Cardinality(DOMAIN commands) + 1) :> [name |-> name]) @@ commands
    /\ last' = Returned("Command", RootId, name)
    /\ res' = NoResult
    /\ UNCHANGED sections

\* Section.add_subsection(section) called on Section p with Section s
add_subsection(p, s) ==
    /\ LET name == sections[s].name IN
       IF verify_new_structure(sections[p], name)
       THEN /\ last' = Raised("add_subsection", p, name)
            /\ UNCHANGED sections
       ELSE /\ sections' = [sections EXCEPT ![p].subsections = DictSet(@, name, s)]
            /\ last' = Returned("add_subsection", p, name)
    /\ res' = NoResult
    /\ UNCHANGED commands

\* A mutant of add_command: the command is stored before the name is verified.
add_command_stores_first(p, c) ==
    /\ LET name == commands[c].name IN
       /\ sections' = [sections EXCEPT ![p].commands = DictSet(@, name, c)]
       /\ IF verify_new_structure(sections[p], name)
          THEN last' = Raised("add_command", p, name)
          ELSE last' = Returned("add_command", p, name)
    /\ res' = NoResult
    /\ UNCHANGED commands

\* Section.add_command(command) called on Section p with Command c
add_command(p, c) ==
    /\ LET name == commands[c].name IN
       IF verify_new_structure(sections[p], name)
       THEN /\ last' = Raised("add_command", p, name)
            /\ UNCHANGED sections
       ELSE /\ sections' = [sections EXCEPT ![p].commands = DictSet(@, name, c)]
            /\ last' = Returned("add_command", p, name)
    /\ res' = NoResult
    /\ UNCHANGED commands

\* Section.create_subsection(name, description) called on Section p. The
\* Section built before a failing add_subsection is referenced by nobody and
\* is not kept in the heap.
create_subsection(p, name) ==
    /\ LET s == Cardinality(DOMAIN sections) IN
       IF verify_new_structure(sections[p], name)
       THEN /\ last' = Raised("create_subsection", p, name)
            /\ UNCHANGED sections
       ELSE /\ sections' = (s :> NewSectionObject(name)) @@
                           [sections EXCEPT ![p].subsections = DictSet(@, name, s)]
            /\ last' = Returned("create_subsection", p, name)
    /\ res' = NoResult
    /\ UNCHANGED commands

\* Section.create_command(name, description, method) called on Section p
create_command(p, name) ==
    /\ LET c == Cardinality(DOMAIN commands) + 1 IN
       IF verify_new_structure(sections[p], name)
       THEN /\ last' = Raised("create_command", p, name)
            /\ UNCHANGED <<sections, commands>>
       ELSE /\ commands' = (c :> [name |-> name]) @@ commands
            /\ sections' = [sections EXCEPT ![p].commands = DictSet(@, name, c)]
            /\ last' = Returned("create_command", p, name)
    /\ res' = NoResult

\* Section.remove_subsection(name) called on Section p
remove_subsection(p, name) ==
    /\ sections' = [sections EXCEPT ![p].subsections = DictPop(@, name)]
    /\ last' = Popped("remove_subsection", p, name, find_subsection(sections[p], name))
    /\ res' = NoResult
    /\ UNCHANGED commands

\* Section.remove_command(name) called on Section p
remove_command(p, name) ==
    /\ sections' = [sections EXCEPT ![p].commands = DictPop(@, name)]
    /\ last' = Popped("remove_command", p, name, find_command(sections[p], name))
    /\ res' = NoResult
    /\ UNCHANGED commands

(***************************************************************************)
(* The resolver.                                                           *)
(***************************************************************************)
Result(node, remaining, calls) ==
    [node |-> node, remaining |-> remaining, calls |-> calls]

\* A mutant of find_closest_match: the Command comes back with the token that named it.
RECURSIVE find_closest_match_keeps_token(_, _, _)
find_closest_match_keeps_token(tree, base_section, args) ==
    IF Len(args) = 0
    THEN Result(SectionRef(base_section), Rest(args), 1)
    ELSE LET find_me == args[1]
             command == find_command(tree[base_section], find_me)
             subsection == find_subsection(tree[base_section], find_me)
         IN IF command # None
            THEN Result(command, args, 1)
            ELSE IF subsection # None
                 THEN IF Len(args) > 1 /\ startswith(args[2], Dash)
                      THEN Result(subsection, Rest(args), 1)
                      ELSE LET sub == find_closest_match_keeps_token(tree, subsection.id, Rest(args))
                           IN Result(sub.node, sub.remaining, sub.calls + 1)
                 ELSE Result(SectionRef(base_section), args, 1)

\* A mutant of find_closest_match: the unmatched token is consumed.
RECURSIVE find_closest_match_drops_unmatched(_, _, _)
find_closest_match_drops_unmatched(tree, base_section, args) ==
    IF Len(args) = 0
    THEN Result(SectionRef(base_section), Rest(args), 1)
    ELSE LET find_me == args[1]
             command == find_command(tree[base_section], find_me)
             subsection == find_subsection(tree[base_section], find_me)
         IN IF command # None
            THEN Result(command, Rest(args), 1)
            ELSE IF subsection # None
                 THEN IF Len(args) > 1 /\ startswith(args[2], Dash)
                      THEN Result(subsection, Rest(args), 1)
                      ELSE LET sub == find_closest_match_drops_unmatched(tree, subsection.id, Rest(args))
                           IN Result(sub.node, sub.remaining, sub.calls + 1)
                 ELSE Result(SectionRef(base_section), Rest(args), 1)

\* A mutant of find_closest_match: the failed lookup itself is returned.
RECURSIVE find_closest_match_returns_lookup(_, _, _)
find_closest_match_returns_lookup(tree, base_section, args) ==
    IF Len(args) = 0
    THEN Result(SectionRef(base_section), Rest(args), 1)
    ELSE LET find_me == args[1]
             command == find_command(tree[base_section], find_me)
             subsection == find_subsection(tree[base_section], find_me)
         IN IF command # None
            THEN Result(command, Rest(args), 1)
            ELSE IF subsection # None
                 THEN IF Len(args) > 1 /\ startswith(args[2], Dash)
                      THEN Result(subsection, Rest(args), 1)
                      ELSE LET sub == find_closest_match_returns_lookup(tree, subsection.id, Rest(args))
                           IN Result(sub.node, sub.remaining, sub.calls + 1)
                 ELSE Result(subsection, args, 1)

\* A mutant of find_closest_match: the check of the next token is left out.
RECURSIVE find_closest_match_always_descends(_, _, _)
find_closest_match_always_descends(tree, base_section, args) ==
    IF Len(args) = 0
    THEN Result(SectionRef(base_section), Rest(args), 1)
    ELSE LET find_me == args[1]
             command == find_command(tree[base_section], find_me)
             subsection == find_subsection(tree[base_section], find_me)
         IN IF command # None
            THEN Result(command, Rest(args), 1)
            ELSE IF subsection # None
                 THEN IF FALSE
                      THEN Result(subsection, Rest(args), 1)
                      ELSE LET sub == find_closest_match_always_descends(tree, subsection.id, Rest(args))
                           IN Result(sub.node, sub.remaining, sub.calls + 1)
                 ELSE Result(SectionRef(base_section), args, 1)

\* A mutant of find_closest_match: in front of an option the Section that was
\* searched comes back, not the subsection that was found.
RECURSIVE find_closest_match_returns_parent(_, _, _)
find_closest_match_returns_parent(tree, base_section, args) ==
    IF Len(args) = 0
    THEN Result(SectionRef(base_section), Rest(args), 1)
    ELSE LET find_me == args[1]
             command == find_command(tree[base_section], find_me)
             subsection == find_subsection(tree[base_section], find_me)
         IN IF command # None
            THEN Result(command, Rest(args), 1)
            ELSE IF subsection # None
                 THEN IF Len(args) > 1 /\ startswith(args[2], Dash)
                      THEN Result(SectionRef(base_section), Rest(args), 1)
                      ELSE LET sub == find_closest_match_returns_parent(tree, subsection.id, Rest(args))
                           IN Result(sub.node, sub.remaining, sub.calls + 1)
                 ELSE Result(SectionRef(base_section), args, 1)

\* A mutant of find_closest_match: a first token that begins with '-' is not
\* looked up at all.
RECURSIVE find_closest_match_skips_options(_, _, _)
find_closest_match_skips_options(tree, base_section, args) ==
    IF Len(args) = 0
    THEN Result(SectionRef(base_section), Rest(args), 1)
    ELSE LET find_me == args[1]
             command == find_command(tree[base_section], find_me)
             subsection == find_subsection(tree[base_section], find_me)
         IN IF startswith(find_me, Dash)
            THEN Result(SectionRef(base_section), args, 1)
            ELSE IF command # None
            THEN Result(command, Rest(args), 1)
            ELSE IF subsection # None
                 THEN IF Len(args) > 1 /\ startswith(args[2], Dash)
                      THEN Result(subsection, Rest(args), 1)
                      ELSE LET sub == find_closest_match_skips_options(tree, subsection.id, Rest(args))
                           IN Result(sub.node, sub.remaining, sub.calls + 1)
                 ELSE Result(SectionRef(base_section), args, 1)

\* Cli._find_closest_match(base_section, args) over the heap `tree`. The
\* result also counts the calls made, the first one included.
RECURSIVE find_closest_match(_, _, _)
find_closest_match(tree, base_section, args) ==
    IF Len(args) = 0
    THEN Result(SectionRef(base_section), Rest(args), 1)
    ELSE LET find_me == args[1]
             command == find_command(tree[base_section], find_me)
             subsection == find_subsection(tree[base_section], find_me)
         IN IF command # None
            THEN Result(command, Rest(args), 1)
            ELSE IF subsection # None
                 THEN IF Len(args) > 1 /\ startswith(args[2], Dash)
                      THEN Result(subsection, Rest(args), 1)
                      ELSE LET sub == find_closest_match(tree, subsection.id, Rest(args))
                           IN Result(sub.node, sub.remaining, sub.calls + 1)
                 ELSE Result(SectionRef(base_section), args, 1)

\* A call of _find_closest_match on the tree as it stands, as Cli.run makes it
Resolve(base, args) ==
    /\ LET r == find_closest_match(sections, base, args) IN
       res' = [state |-> "returned", base |-> base, args |-> args,
               node |-> r.node, remaining |-> r.remaining, calls |-> r.calls]
    /\ last' = NoCall
    /\ UNCHANGED <<sections, commands>>

(***************************************************************************)
(* Python values held by options and handed to the action.                 *)
(***************************************************************************)
PyNone == [t |-> "None"]
PyStr(s) == [t |-> "str", v |-> s]
PyBool(b) == [t |-> "bool", v |-> b]
PyInt(i) == [t |-> "int", v |-> i]
PyList(l) == [t |-> "list", v |-> l]

Range(seq) == { seq[i] : i \in DOMAIN seq }

\* F(value), the value being computed once however often F refers to it:
\* a local variable of the code that holds the result of a call
With(F(_), value) == CHOOSE result \in { F(v) : v \in {value} } : TRUE

\* str.lstrip(ch)
RECURSIVE lstrip(_, _)
lstrip(s, ch) == IF startswith(s, ch) THEN lstrip(Tail(s), ch) ELSE s

\* str.rstrip(ch)
RECURSIVE rstrip(_, _)
rstrip(s, ch) ==
    IF Len(s) > 0 /\ s[Len(s)] = ch THEN rstrip(SubSeq(s, 1, Len(s) - 1), ch) ELSE s

\* str.strip(), for strings whose only whitespace is the blank
strip(s) == rstrip(lstrip(s, " "), " ")

Digits == <<"0", "1", "2", "3", "4", "5", "6", "7", "8", "9">>

DigitValue(ch) == (CHOOSE i \in DOMAIN Digits : Digits[i] = ch) - 1

IsDigits(s) == Len(s) > 0 /\ \A i \in DOMAIN s : s[i] \in Range(Digits)

RECURSIVE DigitsValue(_)
DigitsValue(s) ==
    IF Len(s) = 0 THEN 0
    ELSE 10 * DigitsValue(SubSeq(s, 1, Len(s) - 1)) + DigitValue(s[Len(s)])

\* What a call of a hook or of a builtin does: it returns a value or raises
Return(value) == [raised |-> "none", value |-> value]
Raise(exception) == [raised |-> exception, value |-> PyNone]

\* int(value) for a str of digits with an optional sign; anything else of
\* the token alphabet is not a number
int(s) ==
    IF IsDigits(s) THEN Return(PyInt(DigitsValue(s)))
    ELSE IF startswith(s, Dash) /\ IsDigits(Tail(s)) THEN Return(PyInt(0 - DigitsValue(Tail(s))))
    ELSE Raise("ValueError")

\* parsers.parse_non_negative_int; int() takes a str, an int or a bool and
\* raises TypeError for None and for a list
parse_non_negative_int(value) ==
    IF value.t \notin {"str", "int", "bool"} THEN Raise("TypeError")
    ELSE LET i == IF value.t = "str" THEN int(strip(value.v))
                  ELSE IF value.t = "bool" THEN Return(PyInt(IF value.v THEN 1 ELSE 0))
                  ELSE Return(value)
         IN IF i.raised # "none" THEN i
            ELSE IF i.value.v < 0 THEN Raise("ValueError")
            ELSE i

\* parsers.parse_optional_non_negative_int
parse_optional_non_negative_int(value) ==
    IF value = PyNone THEN Return(PyNone)
    ELSE IF value.t # "str" THEN Raise("AttributeError")
    ELSE IF strip(value.v) = << >> THEN Return(PyNone)
    ELSE parse_non_negative_int(value)

\* A call of the function an Option holds as validate_func or parse_func:
\* one of the two parsers above, or a function of the application that
\* raises one of the exceptions of cli.py whatever the value
CallHook(func, value) ==
    IF func = "parse_optional_non_negative_int" THEN parse_optional_non_negative_int(value)
    ELSE IF func = "parse_non_negative_int" THEN parse_non_negative_int(value)
    ELSE IF func = "raise_CommandUsage" THEN Raise("CommandUsage")
    ELSE Raise("OptionValidationFailed")

(***************************************************************************)
(* Option, Flag, OptionGroup and the options of a Command.                 *)
(***************************************************************************)
\* Option.__init__; aliases is the list of aliases, empty for None, and
\* validate_func and parse_func name a function or are "None"
Option(name, required, allow_multiple, aliases, default, validate_func, parse_func) ==
    [name |-> name, required |-> required, allow_multiple |-> allow_multiple,
     aliases |-> aliases, default |-> default, validate_func |-> validate_func,
     parse_func |-> parse_func, is_flag |-> FALSE]

\* Flag.__init__
Flag(name, aliases) ==
    [Option(name, FALSE, FALSE, aliases, PyNone, "None", "None") EXCEPT !.is_flag = TRUE]

\* Option.keyword
keyword(o) == lstrip(o.name, Dash)

\* The Options and Flags the assembly calls are made with
OptA == Option(<<"-", "-", "a">>, TRUE, FALSE, << >>, PyNone, "None", "None")
OptAInt == Option(<<"-", "-", "a">>, TRUE, FALSE, << >>, PyNone, "None",
                  "parse_optional_non_negative_int")
OptB == Option(<<"-", "-", "b">>, FALSE, TRUE, << <<"-", "b">> >>, PyNone, "None", "None")
FlagF == Flag(<<"-", "-", "f">>, << >>)

Options == {OptA, OptAInt, OptB}
Flags == {FlagF}

\* The tokens of the argument vectors given to execute
CommandTokens == { <<"-", "-", "a">>, <<"-", "b">>, <<"-", "-", "f">>, <<"1">>, << >> }

CommandArgVectors(max) == UNION { [1..n -> CommandTokens] : n \in 0..max }

GroupId == 1

\* The lists of a sequence of lists, one after the other
RECURSIVE Concat(_)
Concat(lists) == IF Len(lists) = 0 THEN << >> ELSE Head(lists) \o Concat(Tail(lists))

\* Command.all_options
all_options(opts, heap, group_ids) ==
    opts \o Concat([i \in DOMAIN group_ids |-> heap[group_ids[i]]])

(***************************************************************************)
(* optparse, as NoCatchErrorParser uses it.                                *)
(***************************************************************************)
\* The option strings OptionParser defines for itself
HelpStrings == { <<"-", "h">>, <<"-", "-", "h", "e", "l", "p">> }

HelpOption == 0

name_list(o) == <<o.name>> \o o.aliases

\* parser.add_option for each Option from the i-th on: the table of option
\* strings, or OptionConflictError when a string is already taken
RECURSIVE add_options(_, _, _)
add_options(all, i, table) ==
    IF i > Len(all) THEN [raised |-> "none", table |-> table]
    ELSE IF Range(name_list(all[i])) \cap DOMAIN table # {}
         THEN [raised |-> "OptionConflictError", table |-> table]
         ELSE add_options(all, i + 1,
                          [s \in (DOMAIN table) \cup Range(name_list(all[i])) |->
                              IF s \in DOMAIN table THEN table[s] ELSE i])

IsPrefix(p, s) == Len(p) <= Len(s) /\ SubSeq(s, 1, Len(p)) = p

IsLongOpt(s) == Len(s) >= 2 /\ s[1] = Dash /\ s[2] = Dash

\* OptionParser._match_long_opt: the option strings opt stands for
match_abbrev(opt, table) ==
    IF opt \in DOMAIN table THEN {opt}
    ELSE { w \in DOMAIN table : IsLongOpt(w) /\ IsPrefix(opt, w) }

\* Values.ensure_value(dest, []).append(value): the list is the default
\* handed to add_option (cli.py:428) when that default is a list
append_value(current, value) ==
    IF current = PyNone THEN PyList(<<value>>) ELSE PyList(Append(current.v, value))

\* ensure_value gives back something with an append method
can_append(o, values) ==
    o.is_flag \/ ~o.allow_multiple \/ values[o.name].t \in {"None", "list"}

\* Option.take_action
take_action(o, value, values) ==
    IF o.is_flag THEN [values EXCEPT ![o.name] = PyBool(TRUE)]
    ELSE IF o.allow_multiple THEN [values EXCEPT ![o.name] = append_value(@, value)]
    ELSE [values EXCEPT ![o.name] = value]

\* given is not part of optparse: it lists, in order, the dest of every
\* option the parser acted on, which is what the user supplied
Parsed(values, args, given) ==
    [raised |-> "none", unexpected |-> PyNone, values |-> values, args |-> args,
     given |-> given]

\* An exception that leaves parse_args after values were stored: CommandUsage
\* raised by exit() or for a BadOptionError, or the AttributeError of an
\* append to a default that is no list. The lists appended to so far stay
\* appended to.
RaisedWith(exception, unexpected, values) ==
    [raised |-> exception, unexpected |-> unexpected, values |-> values, args |-> << >>,
     given |-> << >>]

\* OptionParser._process_args with _process_long_opt and _process_short_opts;
\* cluster holds the characters of a short option token not yet handled.
\* The token alphabet has no '=', so no long option carries its value.
RECURSIVE process_args(_, _, _, _, _, _, _)
process_args(all, table, cluster, rargs, largs, values, given) ==
    IF Len(cluster) > 0
    THEN LET opt == <<Dash, cluster[1]>>
             more == IF Len(cluster) > 1 THEN <<Tail(cluster)>> \o rargs ELSE rargs
         IN IF opt \notin DOMAIN table THEN RaisedWith("CommandUsage", PyList(<<opt>>), values)
            ELSE IF table[opt] = HelpOption THEN RaisedWith("CommandUsage", PyNone, values)
            ELSE IF all[table[opt]].is_flag
                 THEN process_args(all, table, Tail(cluster), rargs, largs,
                                   take_action(all[table[opt]], PyNone, values),
                                   Append(given, all[table[opt]].name))
            ELSE IF Len(more) < 1 THEN RaisedWith("CommandUsage", PyNone, values)
            ELSE IF ~can_append(all[table[opt]], values)
                 THEN RaisedWith("AttributeError", PyNone, values)
            ELSE process_args(all, table, << >>, Tail(more), largs,
                              take_action(all[table[opt]], PyStr(more[1]), values),
                              Append(given, all[table[opt]].name))
    ELSE IF Len(rargs) = 0 THEN Parsed(values, largs, given)
    ELSE LET arg == rargs[1]
             rest == Tail(rargs)
         IN IF arg = <<Dash, Dash>> THEN Parsed(values, largs \o rest, given)
            ELSE IF IsLongOpt(arg)
                 THEN LET found == match_abbrev(arg, table) IN
                      IF Cardinality(found) # 1 THEN RaisedWith("CommandUsage", PyList(<<arg>>), values)
                      ELSE LET index == table[CHOOSE w \in found : TRUE] IN
                           IF index = HelpOption THEN RaisedWith("CommandUsage", PyNone, values)
                           ELSE IF all[index].is_flag
                                THEN process_args(all, table, << >>, rest, largs,
                                                  take_action(all[index], PyNone, values),
                                                  Append(given, all[index].name))
                           ELSE IF Len(rest) < 1 THEN RaisedWith("CommandUsage", PyNone, values)
                           ELSE IF ~can_append(all[index], values)
                                THEN RaisedWith("AttributeError", PyNone, values)
                           ELSE process_args(all, table, << >>, Tail(rest), largs,
                                             take_action(all[index], PyStr(rest[1]), values),
                                             Append(given, all[index].name))
            ELSE IF startswith(arg, Dash) /\ Len(arg) > 1
                 THEN process_args(all, table, Tail(arg), rest, largs, values, given)
            ELSE process_args(all, table, << >>, rest, Append(largs, arg), values, given)

\* OptionParser.get_default_values: every dest with its default
default_values(all) ==
    [name \in { all[i].name : i \in DOMAIN all } |->
        (all[CHOOSE i \in DOMAIN all : all[i].name = name]).default]

\* NoCatchErrorParser built from the options (cli.py:413-428) and its parse_args
parse_args(all, input_args) ==
    LET parse_with(built) ==
            IF built.raised # "none"
            THEN [raised |-> built.raised, unexpected |-> PyNone, values |-> << >>,
                  args |-> << >>, given |-> << >>]
            ELSE process_args(all, built.table, << >>, input_args, << >>,
                              default_values(all), << >>)
    IN With(parse_with, add_options(all, 1, [s \in HelpStrings |-> HelpOption]))

(***************************************************************************)
(* The parsers a Command can be given in place of the default one.         *)
(***************************************************************************)
\* optparse.Values(d): an object whose __dict__ is d
Values(d) == [t |-> "Values", dict |-> d]

\* A Python dict that is not the __dict__ of anything, here always {}
PyDict(d) == [t |-> "dict", dict |-> d]

\* obj.__dict__ exists: it does on a Values, not on a list and not on a dict
HasDict(obj) == obj.t = "Values"

\* What parser.parse_args gives back, as parse_arguments unpacks it:
\* options, remaining_args = parser.parse_args(input_args)
ParserReturned(options_, remaining_args, given, written) ==
    [raised |-> "none", unexpected |-> PyNone, options |-> options_,
     remaining_args |-> remaining_args, given |-> given, written |-> written]

ParserRaised(exception, unexpected, written) ==
    [raised |-> exception, unexpected |-> unexpected, options |-> PyNone,
     remaining_args |-> PyNone, given |-> << >>, written |-> written]

\* PassThroughParser(prompt, path)
PassThroughParser == [t |-> "PassThroughParser"]

\* PassThroughParser.parse_args: return args, {}
PassThroughParser_parse_args(args) == ParserReturned(PyList(args), PyDict(<< >>), << >>, << >>)

\* UnknownArgsParser(prompt, path, required_options, exit_on_abort);
\* required_options holds the names of the (name, description) tuples
UnknownArgsParser(required_options, exit_on_abort) ==
    [t |-> "UnknownArgsParser", required_options |-> required_options,
     exit_on_abort |-> exit_on_abort]

\* A mutant of arg_name: only one leading hyphen is removed.
arg_name_one_hyphen(arg) ==
    IF startswith(arg, Dash) THEN PyStr(Tail(arg)) ELSE PyNone

\* arg_name inside UnknownArgsParser.parse_args
arg_name(arg) ==
    IF Len(arg) >= 2 /\ arg[1] = Dash /\ arg[2] = Dash THEN PyStr(SubSeq(arg, 3, Len(arg)))
    ELSE IF startswith(arg, Dash) THEN PyStr(Tail(arg))
    ELSE PyNone

\* A mutant of remove: the list is left as it is.
remove_nothing(list, item) == list

\* list.remove(item), called when item is in the list
RECURSIVE remove(_, _)
remove(list, item) ==
    IF Len(list) = 0 THEN list
    ELSE IF Head(list) = item THEN Tail(list)
    ELSE <<Head(list)>> \o remove(Tail(list), item)

\* The line UnknownArgsParser.usage writes first
UsageLine == <<"U", "s", "a", "g", "e", ":">>

\* UnknownArgsParser.abort: sys.exit(os.EX_USAGE) or raise exception_class
abort(prs, exception_class) ==
    IF prs.exit_on_abort THEN "SystemExit" ELSE exception_class

\* A mutant of HelpNames: only -h and --h ask for help.
HelpNames_short == { <<"h">> }

\* The names UnknownArgsParser.parse_args shows its usage for
HelpNames == { <<"h">>, <<"h", "e", "l", "p">> }

\* The while loop of UnknownArgsParser.parse_args from args[index] on, and
\* what follows the loop; index counts from 1
RECURSIVE unknown_parse_args(_, _, _, _, _, _)
unknown_parse_args(prs, args, index, parsed, required_names, given) ==
    IF index > Len(args)
    THEN IF Len(required_names) > 0
         THEN ParserRaised(abort(prs, "MissingRequired"), PyNone, <<UsageLine>>)
         ELSE ParserReturned(Values(parsed), << >>, given, << >>)
    ELSE LET item == args[index]
             left == IF item \in Range(required_names) THEN remove(required_names, item)
                     ELSE required_names
             name == arg_name(item)
         IN IF name = PyNone \/ name.v \in HelpNames
            THEN ParserRaised(abort(prs, "Unparsable"), PyNone, <<UsageLine>>)
            ELSE IF index = Len(args) \/ startswith(args[index + 1], Dash)
            THEN unknown_parse_args(prs, args, index + 1,
                                    DictSet(parsed, name.v, PyBool(TRUE)), left,
                                    Append(given, item))
            ELSE LET value == PyStr(args[index + 1])
                     stored == IF name.v \in DOMAIN parsed
                               THEN IF parsed[name.v].t # "list"
                                    THEN PyList(<<parsed[name.v], value>>)
                                    ELSE PyList(Append(parsed[name.v].v, value))
                               ELSE value
                 IN unknown_parse_args(prs, args, index + 2,
                                       DictSet(parsed, name.v, stored), left,
                                       Append(given, item))

\* UnknownArgsParser.parse_args(args)
UnknownArgsParser_parse_args(prs, args) ==
    unknown_parse_args(prs, args, 1, << >>, prs.required_options, << >>)

\* parser.parse_args(input_args) for the parser of the Command: None stands
\* for the NoCatchErrorParser that parse_arguments builds from the options
parser_parse_args(prs, all, input_args) ==
    IF prs = PyNone
    THEN LET unpack(parsed) ==
                 IF parsed.raised # "none"
                 THEN ParserRaised(parsed.raised, parsed.unexpected, << >>)
                 ELSE ParserReturned(Values(parsed.values), parsed.args, parsed.given, << >>)
         IN With(unpack, parse_args(all, input_args))
    ELSE IF prs.t = "PassThroughParser" THEN PassThroughParser_parse_args(input_args)
    ELSE UnknownArgsParser_parse_args(prs, input_args)

(***************************************************************************)
(* Command.parse_arguments and Command.execute.                            *)
(***************************************************************************)
\* A call of a hook of the Option o: the value it was called with and how
\* the call ended
Event(hook, o, value, call) ==
    [hook |-> hook, option |-> o.name, value |-> value, raised |-> call.raised,
     result |-> call.value]

HookState(raised, values, trace, written) ==
    [raised |-> raised, values |-> values, trace |-> trace, written |-> written]

\* A mutant of except_validation: no exception of a hook is caught.
except_nothing(exception) == FALSE

\* A mutant of except_validation: every exception of a hook is caught.
except_anything(exception) == exception # "none"

\* except (ValueError, TypeError), cli.py:440 and cli.py:456
except_validation(exception) == exception \in {"ValueError", "TypeError"}

\* A mutant of run_validate: after a validate_func raised ValueError or
\* TypeError the error is printed and the loop goes on.
RECURSIVE run_validate_goes_on(_, _, _)
run_validate_goes_on(all, i, st) ==
    IF i > Len(all) THEN st
    ELSE IF all[i].validate_func = "None" THEN run_validate_goes_on(all, i + 1, st)
    ELSE IF all[i].name \notin DOMAIN st.values
         THEN HookState("KeyError", st.values, st.trace, st.written)
    ELSE IF st.values[all[i].name] = PyNone THEN run_validate_goes_on(all, i + 1, st)
    ELSE LET value == st.values[all[i].name]
             call == CallHook(all[i].validate_func, value)
             trace == Append(st.trace, Event("validate", all[i], value, call))
         IN IF except_validation(call.raised)
            THEN run_validate_goes_on(all, i + 1,
                                      HookState("none", st.values, trace,
                                                Append(st.written, all[i].name)))
            ELSE IF call.raised # "none"
                 THEN HookState(call.raised, st.values, trace, st.written)
            ELSE run_validate_goes_on(all, i + 1,
                                      HookState("none", st.values, trace, st.written))

\* The loop over validate_options (cli.py:435-443), from the i-th Option on
RECURSIVE run_validate(_, _, _)
run_validate(all, i, st) ==
    IF i > Len(all) THEN st
    ELSE IF all[i].validate_func = "None" THEN run_validate(all, i + 1, st)
    ELSE IF all[i].name \notin DOMAIN st.values
         THEN HookState("KeyError", st.values, st.trace, st.written)
    ELSE IF st.values[all[i].name] = PyNone THEN run_validate(all, i + 1, st)
    ELSE LET value == st.values[all[i].name]
             call == CallHook(all[i].validate_func, value)
             trace == Append(st.trace, Event("validate", all[i], value, call))
         IN IF except_validation(call.raised)
            THEN HookState("OptionValidationFailed", st.values, trace,
                           Append(st.written, all[i].name))
            ELSE IF call.raised # "none"
                 THEN HookState(call.raised, st.values, trace, st.written)
            ELSE run_validate(all, i + 1, HookState("none", st.values, trace, st.written))

\* The loop over parse_options (cli.py:448-459), from the i-th Option on
RECURSIVE run_parse(_, _, _)
run_parse(all, i, st) ==
    IF i > Len(all) THEN st
    ELSE IF all[i].parse_func = "None" THEN run_parse(all, i + 1, st)
    ELSE IF all[i].name \notin DOMAIN st.values
         THEN HookState("KeyError", st.values, st.trace, st.written)
    ELSE IF st.values[all[i].name] = PyNone THEN run_parse(all, i + 1, st)
    ELSE LET value == st.values[all[i].name]
             call == CallHook(all[i].parse_func, value)
             trace == Append(st.trace, Event("parse", all[i], value, call))
         IN IF except_validation(call.raised)
            THEN HookState("OptionValidationFailed", st.values, trace,
                           Append(st.written, all[i].name))
            ELSE IF call.raised # "none"
                 THEN HookState(call.raised, st.values, trace, st.written)
            ELSE run_parse(all, i + 1,
                           HookState("none", [st.values EXCEPT ![all[i].name] = call.value],
                                     trace, st.written))

\* A mutant of parse_arguments: the parse loop runs before the validate loop.
parse_arguments_parses_first(prs, all, input_args) ==
    LET parsed == parser_parse_args(prs, all, input_args) IN
    IF parsed.raised # "none"
    THEN [raised |-> parsed.raised, unexpected |-> parsed.unexpected,
          remaining_args |-> << >>, kwarg_dict |-> << >>, trace |-> << >>,
          written |-> parsed.written, given |-> << >>]
    ELSE IF ~HasDict(parsed.options)
    THEN [raised |-> "AttributeError", unexpected |-> PyNone,
          remaining_args |-> << >>, kwarg_dict |-> << >>, trace |-> << >>,
          written |-> << >>, given |-> << >>]
    ELSE LET transformed == run_parse(all, 1,
                                      HookState("none", parsed.options.dict, << >>, << >>))
             done == IF transformed.raised # "none" THEN transformed
                     ELSE run_validate(all, 1, transformed)
         IN [raised |-> done.raised, unexpected |-> PyNone,
             remaining_args |-> parsed.remaining_args, kwarg_dict |-> done.values,
             trace |-> done.trace, written |-> done.written, given |-> parsed.given]

\* Command.parse_arguments of a Command whose parser is prs. options.__dict__
\* is read by the validate loop, by the parse loop and by the return
\* statement, whichever comes first: without a __dict__ that is an
\* AttributeError before any hook is called.
parse_arguments(prs, all, input_args) ==
    LET hooks(parsed) ==
            LET parse(validated) ==
                    IF validated.raised # "none" THEN validated
                    ELSE run_parse(all, 1, validated)
                return(done) ==
                    [raised |-> done.raised, unexpected |-> PyNone,
                     remaining_args |-> parsed.remaining_args, kwarg_dict |-> done.values,
                     trace |-> done.trace, written |-> done.written,
                     given |-> parsed.given]
            IN IF parsed.raised # "none"
               THEN [raised |-> parsed.raised, unexpected |-> parsed.unexpected,
                     remaining_args |-> << >>, kwarg_dict |-> << >>, trace |-> << >>,
                     written |-> parsed.written, given |-> << >>]
               ELSE IF ~HasDict(parsed.options)
               THEN [raised |-> "AttributeError", unexpected |-> PyNone,
                     remaining_args |-> << >>, kwarg_dict |-> << >>, trace |-> << >>,
                     written |-> << >>, given |-> << >>]
               ELSE With(return,
                         With(parse,
                              run_validate(all, 1,
                                           HookState("none", parsed.options.dict,
                                                     << >>, << >>))))
    IN With(hooks, parser_parse_args(prs, all, input_args))

\* A mutant of missing_required: a required Option is missing only when the
\* parser stored nothing at all under its name.
RECURSIVE missing_required_absent_only(_, _)
missing_required_absent_only(all, kwarg_dict) ==
    IF Len(all) = 0 THEN << >>
    ELSE IF Head(all).required /\ Head(all).name \notin DOMAIN kwarg_dict
         THEN <<Head(all)>> \o missing_required_absent_only(Tail(all), kwarg_dict)
         ELSE missing_required_absent_only(Tail(all), kwarg_dict)

\* SelectSeq(all, required and without a value), cli.py:224-226
RECURSIVE missing_required(_, _)
missing_required(all, kwarg_dict) ==
    IF Len(all) = 0 THEN << >>
    ELSE LET o == Head(all)
             others == missing_required(Tail(all), kwarg_dict)
         IN IF o.required /\ (o.name \notin DOMAIN kwarg_dict \/ kwarg_dict[o.name] = PyNone)
            THEN <<o>> \o others
            ELSE others

\* The loop over self.options that sets unspecified flags to False, cli.py:233-235
RECURSIVE default_flags(_, _)
default_flags(opts, kwarg_dict) ==
    IF Len(opts) = 0 THEN kwarg_dict
    ELSE LET o == Head(opts) IN
         default_flags(Tail(opts),
                       IF o.is_flag /\ kwarg_dict[o.name] = PyNone
                       THEN [kwarg_dict EXCEPT ![o.name] = PyBool(FALSE)]
                       ELSE kwarg_dict)

\* dict([(k.lstrip('-'), v) for k, v in kwarg_dict.items()]), cli.py:238
clean_kwargs(kwarg_dict) ==
    [k \in { lstrip(name, Dash) : name \in DOMAIN kwarg_dict } |->
        kwarg_dict[CHOOSE name \in DOMAIN kwarg_dict : lstrip(name, Dash) = k]]

EX_DATAERR == 65

Outcome(status, code, missing, unexpected, arg_list, kwargs, pa) ==
    [status |-> status, code |-> code, missing |-> missing, unexpected |-> unexpected,
     arg_list |-> arg_list, kwargs |-> kwargs, trace |-> pa.trace, written |-> pa.written,
     given |-> pa.given]

\* A mutant of execute: the required options are looked for in what the
\* parser returned, before any validate_func or parse_func is called.
execute_checks_required_first(prs, opts, all, args) ==
    LET parsed == parser_parse_args(prs, all, args)
        early == IF parsed.raised = "none" /\ HasDict(parsed.options)
                 THEN missing_required(all, parsed.options.dict)
                 ELSE << >>
        pa == parse_arguments(prs, all, args)
    IN IF Len(early) > 0
       THEN Outcome("CommandUsage", 0, PyList(early), PyNone, << >>, << >>,
                    [trace |-> << >>, written |-> << >>, given |-> parsed.given])
       ELSE IF pa.raised = "OptionValidationFailed"
       THEN Outcome("returned", EX_DATAERR, PyNone, PyNone, << >>, << >>, pa)
       ELSE IF pa.raised # "none"
       THEN Outcome(pa.raised, 0, PyNone, pa.unexpected, << >>, << >>, pa)
       ELSE LET missing == missing_required(all, pa.kwarg_dict) IN
            IF Len(missing) > 0
            THEN Outcome("CommandUsage", 0, PyList(missing), PyNone, << >>, << >>, pa)
            ELSE Outcome("invoked", 0, PyNone, PyNone, pa.remaining_args,
                         clean_kwargs(default_flags(opts, pa.kwarg_dict)), pa)

\* Command.execute(prompt, args) of a Command whose direct options are opts
\* and whose options, direct and grouped, are all. status tells how the call
\* ended: "invoked" when the method was called with arg_list and kwargs,
\* "returned" when execute returned without calling it, else the exception.
\* The method is taken to accept any arguments. prs is the Command's parser.
execute(prs, opts, all, args) ==
    LET after(pa) ==
            LET check(missing) ==
                    IF Len(missing) > 0
                    THEN Outcome("CommandUsage", 0, PyList(missing), PyNone, << >>, << >>, pa)
                    ELSE IF \E i \in DOMAIN opts :
                                opts[i].is_flag /\ opts[i].name \notin DOMAIN pa.kwarg_dict
                    THEN Outcome("KeyError", 0, PyNone, PyNone, << >>, << >>, pa)
                    ELSE Outcome("invoked", 0, PyNone, PyNone, pa.remaining_args,
                                 clean_kwargs(default_flags(opts, pa.kwarg_dict)), pa)
            IN IF pa.raised = "OptionValidationFailed"
               THEN Outcome("returned", EX_DATAERR, PyNone, PyNone, << >>, << >>, pa)
               ELSE IF pa.raised # "none"
               THEN Outcome(pa.raised, 0, PyNone, pa.unexpected, << >>, << >>, pa)
               ELSE With(check, missing_required(all, pa.kwarg_dict))
    IN With(after, parse_arguments(prs, all, args))

(***************************************************************************)
(* Assembly of a Command and its execution.                                *)
(***************************************************************************)
\* Command.add_option(option)
add_option(option) ==
    /\ options' = Append(options, option)
    /\ exec' = NoResult
    /\ UNCHANGED <<groups, option_groups>>

\* Command.add_flag(flag)
add_flag(flag) == add_option(flag)

\* Command.create_option(name, ...): the Option is built and added
create_option(option) == add_option(option)

\* Command.create_flag(name, ...): the Flag is built and added
create_flag(flag) == add_option(flag)

\* OptionGroup.add_option(option) called on the OptionGroup g
group_add_option(g, option) ==
    /\ groups' = [groups EXCEPT ![g] = Append(@, option)]
    /\ exec' = NoResult
    /\ UNCHANGED <<options, option_groups>>

\* Command.add_option_group(option_group)
add_option_group(g) ==
    /\ option_groups' = Append(option_groups, g)
    /\ exec' = NoResult
    /\ UNCHANGED <<options, groups>>

\* The options after parse_args stored values: action 'append' appends to the
\* list given as default (cli.py:428), which is the list the Option holds
shared_defaults(opts, values) ==
    [i \in DOMAIN opts |->
        IF ~opts[i].is_flag /\ opts[i].allow_multiple /\ opts[i].default.t = "list"
           /\ opts[i].name \in DOMAIN values
        THEN [opts[i] EXCEPT !.default = values[opts[i].name]]
        ELSE opts[i]]

\* Command.execute(prompt, args) on the Command as it stands
Execute(args) ==
    LET all == all_options(options, groups, option_groups)
        stored == IF parser = PyNone THEN parse_args(all, args).values ELSE << >>
    IN /\ exec' = [state |-> "returned", args |-> args,
                   out |-> execute(parser, options, all, args)]
       /\ options' = shared_defaults(options, stored)
       /\ groups' = [g \in DOMAIN groups |->
                        IF g \in Range(option_groups)
                        THEN shared_defaults(groups[g], stored) ELSE groups[g]]
       /\ UNCHANGED option_groups

(***************************************************************************)
(* Cli.run.                                                                *)
(***************************************************************************)
EX_OK == 0

EX_USAGE == 64

\* How a call of Cli.run ended. raised is "none" when run returned code;
\* printed is the Section whose listing or the Command whose usage run wrote,
\* or None; out is the outcome of Command.execute when run called it.
RunOutcome(raised, code, printed, node, remaining_args, out) ==
    [raised |-> raised, code |-> code, printed |-> printed, node |-> node,
     remaining_args |-> remaining_args, out |-> out]

\* A mutant of exit_code: the value of the method is returned as it is.
exit_code_verbatim(returned) == returned

\* if exit_code is None: exit_code = os.EX_OK, cli.py:983-987
exit_code(returned) == IF returned = PyNone THEN PyInt(EX_OK) ELSE returned

\* A mutant of print_section: the listing is always the root's.
print_section_of_root(found) ==
    RunOutcome("none", PyInt(EX_USAGE), SectionRef(RootId), found.node,
               found.remaining, NoResult)

\* The branches of run that print a Section and return EX_USAGE, cli.py:973-978
print_section(found) ==
    RunOutcome("none", PyInt(EX_USAGE),
               IF found.node = None THEN SectionRef(RootId) ELSE found.node,
               found.node, found.remaining, NoResult)

\* A mutant of except_CommandUsage: the exception is not caught.
except_CommandUsage_missing(found, out) ==
    RunOutcome("CommandUsage", PyNone, None, found.node, found.remaining, out)

\* except CommandUsage: print_command_usage and return EX_USAGE, cli.py:988-992
except_CommandUsage(found, out) ==
    RunOutcome("none", PyInt(EX_USAGE), found.node, found.node, found.remaining, out)

\* Cli.run(args) on the tree `tree`, whose Command has the parser prs, the
\* method returning m, the direct options opts and the options all
run(tree, prs, m, opts, all, args) ==
    LET dispatch(found) ==
            LET finish(out) ==
                    IF out.status = "invoked"
                    THEN RunOutcome("none", exit_code(m), None, found.node,
                                    found.remaining, out)
                    ELSE IF out.status = "returned"
                    THEN RunOutcome("none", exit_code(PyInt(out.code)), None, found.node,
                                    found.remaining, out)
                    ELSE IF out.status = "CommandUsage"
                    THEN except_CommandUsage(found, out)
                    ELSE RunOutcome(out.status, PyNone, None, found.node,
                                    found.remaining, out)
            IN IF found.node = None \/ found.node.kind = "Section"
               THEN print_section(found)
               ELSE With(finish, execute(prs, opts, all, found.remaining))
    IN With(dispatch, find_closest_match(tree, RootId, args))

\* Cli.create_section(name, description)
create_section(name) == create_subsection(RootId, name)

\* Section.create_command(name, description, method, usage_description, parser)
\* on Section p, with a method that returns m and the parser prs
create_command_with(p, name, m, prs) ==
    /\ create_command(p, name)
    /\ IF verify_new_structure(sections[p], name)
       THEN UNCHANGED <<method, parser>>
       ELSE method' = m /\ parser' = prs

\* Cli.run(args) on the Cli as it stands
Run(args) ==
    LET all == all_options(options, groups, option_groups)
        out == run(sections, parser, method, options, all, args)
        stored == IF out.out # NoResult /\ parser = PyNone
                  THEN parse_args(all, out.remaining_args).values ELSE << >>
    IN /\ ran' = [state |-> "returned", args |-> args, out |-> out]
       /\ options' = shared_defaults(options, stored)
       /\ groups' = [g \in DOMAIN groups |->
                        IF g \in Range(option_groups)
                        THEN shared_defaults(groups[g], stored) ELSE groups[g]]
       /\ UNCHANGED <<sections, commands, last, res, option_groups, exec, method, parser,
                      parse_result>>

(***************************************************************************)
(* Spec: Sections and Commands are built apart from the tree and placed    *)
(* anywhere, any number of times. The resolver changes nothing, so it is   *)
(* followed from each tree as the assembly calls left it: a second call    *)
(* after a first reaches the same states.                                  *)
(***************************************************************************)
Init ==
    /\ sections = (RootId :> NewSectionObject(RootName))
    /\ commands = << >>
    /\ last = NoCall
    /\ res = NoResult
    /\ options = << >>
    /\ groups = (GroupId :> << >>)
    /\ option_groups = << >>
    /\ exec = NoResult
    /\ method = PyNone
    /\ parser = PyNone
    /\ ran = NoResult
    /\ parse_result = NoResult

SectionsLeft == Cardinality(DOMAIN sections) < MaxSections + 1
CommandsLeft == Cardinality(DOMAIN commands) < MaxCommands

Next ==
    \/ \E name \in Names : SectionsLeft /\ NewSection(name) /\ UNCHANGED <<commandVars, runVars>>
    \/ \E name \in Names : CommandsLeft /\ NewCommand(name) /\ UNCHANGED <<commandVars, runVars>>
    \/ \E p \in DOMAIN sections, s \in (DOMAIN sections) \ {RootId} : add_subsection(p, s) /\ UNCHANGED <<commandVars, runVars>>
    \/ \E p \in DOMAIN sections, c \in DOMAIN commands : add_command(p, c) /\ UNCHANGED <<commandVars, runVars>>
    \/ \E p \in DOMAIN sections, name \in Names : SectionsLeft /\ create_subsection(p, name) /\ UNCHANGED <<commandVars, runVars>>
    \/ \E p \in DOMAIN sections, name \in Names : CommandsLeft /\ create_command(p, name) /\ UNCHANGED <<commandVars, runVars>>
    \/ \E p \in DOMAIN sections, name \in Names : remove_subsection(p, name) /\ UNCHANGED <<commandVars, runVars>>
    \/ \E p \in DOMAIN sections, name \in Names : remove_command(p, name) /\ UNCHANGED <<commandVars, runVars>>
    \/ res = NoResult /\ \E args \in ArgVectors(MaxArgs) : Resolve(RootId, args) /\ UNCHANGED <<commandVars, runVars>>

Spec == Init /\ [][Next]_vars

(***************************************************************************)
(* SpecTree: the tree is assembled with create_subsection and              *)
(* create_command alone, as in the tests of the resolver.                  *)
(***************************************************************************)
TreeSectionsLeft == Cardinality(DOMAIN sections) < TreeSections + 1
TreeCommandsLeft == Cardinality(DOMAIN commands) < TreeCommands

NextTree ==
    \/ \E p \in DOMAIN sections, name \in Names : TreeSectionsLeft /\ create_subsection(p, name) /\ UNCHANGED <<commandVars, runVars>>
    \/ \E p \in DOMAIN sections, name \in Names : TreeCommandsLeft /\ create_command(p, name) /\ UNCHANGED <<commandVars, runVars>>
    \/ \E args \in ArgVectors(TreeArgs) : Resolve(RootId, args) /\ UNCHANGED <<commandVars, runVars>>

SpecTree == Init /\ [][NextTree]_vars

(***************************************************************************)
(* SpecCommand: one Command and one OptionGroup are given options and the  *)
(* Command is executed.                                                    *)
(***************************************************************************)
OptionsLeft ==
    Len(options) + Len(Concat([g \in 1..GroupId |-> groups[g]])) < MaxOptions

NextCommand ==
    \/ \E o \in Options \cup Flags : OptionsLeft /\ add_option(o) /\ UNCHANGED <<treeVars, runVars>>
    \/ \E f \in Flags : OptionsLeft /\ add_flag(f) /\ UNCHANGED <<treeVars, runVars>>
    \/ \E o \in Options : OptionsLeft /\ create_option(o) /\ UNCHANGED <<treeVars, runVars>>
    \/ \E f \in Flags : OptionsLeft /\ create_flag(f) /\ UNCHANGED <<treeVars, runVars>>
    \/ \E o \in Options \cup Flags : OptionsLeft /\ group_add_option(GroupId, o) /\ UNCHANGED <<treeVars, runVars>>
    \/ Len(option_groups) < MaxGroupAdds /\ add_option_group(GroupId) /\ UNCHANGED <<treeVars, runVars>>
    \/ \E args \in CommandArgVectors(MaxCommandArgs) : Execute(args) /\ UNCHANGED <<treeVars, runVars>>

SpecCommand == Init /\ [][NextCommand]_vars

(***************************************************************************)
(* SpecRun: a Cli is given Sections and one Command, the Command is given  *)
(* a method, a parser and options, and Cli.run is called. run changes      *)
(* nothing of the Cli, so it is followed from each assembled Cli once: a   *)
(* second run from the same Cli reaches the same states.                   *)
(***************************************************************************)
\* What the method of the Command returns
Methods == { PyNone, PyInt(0), PyInt(3) }

DashA == <<"-", "-", "a">>

\* The parsers the Command is created with
Parsers == { PyNone, PassThroughParser, UnknownArgsParser(<< >>, TRUE),
             UnknownArgsParser(<<DashA>>, FALSE) }

RunPool == { OptA, FlagF }

RunTokens == Names \cup { DashA, <<"1">> }

RunArgVectors(max) == UNION { [1..n -> RunTokens] : n \in 0..max }

NextRun ==
    \/ \E name \in Names :
          /\ Cardinality(DOMAIN sections) < RunSections + 1
          /\ create_section(name)
          /\ ran' = NoResult
          /\ UNCHANGED <<commandVars, method, parser, parse_result>>
    \/ \E p \in DOMAIN sections, name \in Names, m \in Methods, prs \in Parsers :
          /\ DOMAIN commands = {}
          /\ create_command_with(p, name, m, prs)
          /\ ran' = NoResult
          /\ UNCHANGED <<commandVars, parse_result>>
    \/ \E o \in RunPool :
          /\ Len(options) < RunOptions
          /\ add_option(o)
          /\ ran' = NoResult
          /\ UNCHANGED <<treeVars, method, parser, parse_result>>
    \/ \E args \in RunArgVectors(RunArgs) : ran = NoResult /\ Run(args)

SpecRun == Init /\ [][NextRun]_vars

(***************************************************************************)
(* SpecHooks: a Cli with one Command at its root, which uses the default   *)
(* parser and is given Options with validate and parse functions, and      *)
(* Cli.run is called.                                                      *)
(***************************************************************************)
DashB == <<"-", "-", "b">>

\* validate_func and parse_func both set
OptV == Option(DashB, FALSE, FALSE, << >>, PyNone,
               "parse_non_negative_int", "parse_non_negative_int")

\* a default and a parse_func
OptD == Option(DashB, FALSE, FALSE, << >>, PyStr(<<"1">>), "None", "parse_non_negative_int")

\* allow_multiple: the hooks are handed a list
OptM == Option(DashB, FALSE, TRUE, << >>, PyNone, "None", "parse_optional_non_negative_int")
OptT == Option(DashB, FALSE, TRUE, << >>, PyNone, "parse_non_negative_int", "None")

\* hooks that raise the exceptions of cli.py
OptCU == Option(DashB, FALSE, FALSE, << >>, PyNone, "raise_CommandUsage", "None")
OptOVF == Option(DashB, FALSE, FALSE, << >>, PyNone, "None", "raise_OptionValidationFailed")

HookPool == { OptA, OptV, OptD, OptM, OptT, OptCU, OptOVF }

HookCommandName == <<"a">>

HookTokens == { HookCommandName, DashA, DashB, <<"1">> }

HookArgVectors(max) == UNION { [1..n -> HookTokens] : n \in 0..max }

NextHooks ==
    \/ /\ DOMAIN commands = {}
       /\ create_command_with(RootId, HookCommandName, PyNone, PyNone)
       /\ ran' = NoResult
       /\ UNCHANGED <<commandVars, parse_result>>
    \/ \E o \in HookPool :
          /\ Len(options) < HookOptions
          /\ create_option(o)
          /\ ran' = NoResult
          /\ UNCHANGED <<treeVars, method, parser, parse_result>>
    \/ \E args \in HookArgVectors(HookArgs) : ran = NoResult /\ Run(args)

SpecHooks == Init /\ [][NextHooks]_vars

(***************************************************************************)
(* SpecMultiple: a Command with the default parser is given Options that   *)
(* allow multiple values, with and without a default, and is executed.     *)
(* execute is followed once from each assembled Command.                   *)
(***************************************************************************)
DashT == <<"-", "-", "t">>

\* allow_multiple, without a default, with a list as default and with a
\* string as default
OptTag == Option(DashT, FALSE, TRUE, << >>, PyNone, "None", "None")
OptTagList == Option(DashT, FALSE, TRUE, << >>, PyList(<<PyStr(<<"x">>)>>), "None", "None")
OptTagStr == Option(DashT, FALSE, TRUE, << >>, PyStr(<<"x">>), "None", "None")

\* an optional Option that takes one value
OptO == Option(DashA, FALSE, FALSE, << >>, PyNone, "None", "None")

MultiPool == { OptTag, OptTagList, OptTagStr, OptO }

MultiTokens == { DashT, DashA, <<"a">>, <<"b">> }

MultiArgVectors(max) == UNION { [1..n -> MultiTokens] : n \in 0..max }

NextMultiple ==
    \/ \E o \in MultiPool :
          /\ Len(options) < MultiOptions
          /\ create_option(o)
          /\ UNCHANGED <<treeVars, runVars>>
    \/ /\ exec = NoResult
       /\ \E args \in MultiArgVectors(MultiArgs) : Execute(args)
       /\ UNCHANGED <<treeVars, runVars>>

SpecMultiple == Init /\ [][NextMultiple]_vars

(***************************************************************************)
(* SpecUnknown: an UnknownArgsParser is built and its parse_args is called *)
(* on an argument vector, once for each parser.                            *)
(***************************************************************************)
\* UnknownArgsParser(prompt, path, required_options, exit_on_abort)
NewUnknownArgsParser(required_options, exit_on_abort) ==
    /\ parser' = UnknownArgsParser(required_options, exit_on_abort)
    /\ parse_result' = NoResult
    /\ UNCHANGED <<method, ran>>

\* parser.parse_args(args) on the UnknownArgsParser as it stands
ParseArgs(args) ==
    /\ parser.t = "UnknownArgsParser"
    /\ parse_result' = [state |-> "returned", args |-> args,
                        out |-> UnknownArgsParser_parse_args(parser, args)]
    /\ UNCHANGED <<method, parser, ran>>

\* The required names a parser is built with; they carry their hyphens
\* (cli.py:1203)
RequiredLists == { << >>, <<DashA>>, <<DashA, DashB>> }

UnknownTokens ==
    { DashA, <<"-", "a">>, DashB, <<"-", "h">>, <<"-", "-", "h", "e", "l", "p">>,
      <<"1">>, <<"2">> }

UnknownArgVectors(max) == UNION { [1..n -> UnknownTokens] : n \in 0..max }

NextUnknown ==
    \/ \E required_options \in RequiredLists, exit_on_abort \in BOOLEAN :
          /\ NewUnknownArgsParser(required_options, exit_on_abort)
          /\ UNCHANGED <<treeVars, commandVars>>
    \/ /\ parse_result = NoResult
       /\ \E args \in UnknownArgVectors(UnknownArgs) : ParseArgs(args)
       /\ UNCHANGED <<treeVars, commandVars>>

SpecUnknown == Init /\ [][NextUnknown]_vars

(***************************************************************************)
(* SpecPipeline: a Command with the default parser and an OptionGroup are  *)
(* given Options with validate and parse hooks, the OptionGroup is added   *)
(* to the Command once, and the Command is executed, once from each        *)
(* assembled Command, on options that each come with a value.              *)
(***************************************************************************)
\* validate_func and parse_func both set, under the name --a
OptVA == Option(DashA, FALSE, FALSE, << >>, PyNone,
                "parse_non_negative_int", "parse_non_negative_int")

PipePool == { OptVA, OptAInt, OptV, OptT }

\* An option string followed by a value: a number, a word or a blank
PipeTokens == { <<t, v>> : t \in {DashA, DashB}, v \in { <<"1">>, <<"a">>, << >> } }

\* The argument vectors that give up to max options, each with its value
PipeArgVectors(max) == { Concat(given) : given \in UNION { [1..n -> PipeTokens] : n \in 0..max } }

PipeOptionsLeft ==
    Len(options) + Len(Concat([g \in 1..GroupId |-> groups[g]])) < PipeOptions

NextPipeline ==
    \/ \E o \in PipePool :
          PipeOptionsLeft /\ create_option(o) /\ UNCHANGED <<treeVars, runVars>>
    \/ \E o \in PipePool :
          PipeOptionsLeft /\ group_add_option(GroupId, o) /\ UNCHANGED <<treeVars, runVars>>
    \/ /\ GroupId \notin Range(option_groups)
       /\ add_option_group(GroupId)
       /\ UNCHANGED <<treeVars, runVars>>
    \/ /\ exec = NoResult
       /\ \E args \in PipeArgVectors(PipeGiven) : Execute(args)
       /\ UNCHANGED <<treeVars, runVars>>

SpecPipeline == Init /\ [][NextPipeline]_vars

(***************************************************************************)
(* Properties of the resolver.                                             *)
(***************************************************************************)
NoSection == RootId - 1

\* The Section reached from `base` by following the first d tokens of args
\* through the subsections maps, or NoSection when some token names none.
RECURSIVE SectionAt(_, _, _, _)
SectionAt(tree, base, args, d) ==
    IF d = 0 THEN base
    ELSE LET up == SectionAt(tree, base, args, d - 1) IN
         IF up # NoSection /\ args[d] \in DOMAIN tree[up].subsections
         THEN tree[up].subsections[args[d]]
         ELSE NoSection

\* The first n tokens of args name a path of subsections that ends at a Command
CommandPath(tree, base, args, n) ==
    /\ n \in 1..Len(args)
    /\ SectionAt(tree, base, args, n - 1) # NoSection
    /\ args[n] \in DOMAIN tree[SectionAt(tree, base, args, n - 1)].commands

CommandOn(tree, base, args, n) ==
    CommandRef(tree[SectionAt(tree, base, args, n - 1)].commands[args[n]])

\* The first d tokens of args name a chain of sections and the next names nothing
BrokenPath(tree, base, args, d) ==
    /\ d \in 0..(Len(args) - 1)
    /\ SectionAt(tree, base, args, d) # NoSection
    /\ LET at == tree[SectionAt(tree, base, args, d)] IN
       /\ args[d + 1] \notin DOMAIN at.subsections
       /\ args[d + 1] \notin DOMAIN at.commands

\* No token of args at the positions from..to begins with the option prefix
NoDash(args, from, to) == \A i \in from..to : ~startswith(args[i], Dash)

Suffix(args, n) == SubSeq(args, n + 1, Len(args))

Returned_ == res.state = "returned"

\* C1, as stated: a full valid path to a Command c followed by k extra tokens
\* resolves to c and exactly the k extra tokens.
C1_Original ==
    Returned_ =>
        \A n \in 1..Len(res.args) :
            CommandPath(sections, res.base, res.args, n) =>
                /\ res.node = CommandOn(sections, res.base, res.args, n)
                /\ res.remaining = Suffix(res.args, n)

\* C1, amended: a full valid path to a Command c none of whose tokens after
\* the first begins with '-', followed by k extra tokens, resolves to c and
\* exactly the k extra tokens.
C1_CommandPathResolves ==
    Returned_ =>
        \A n \in 1..Len(res.args) :
            (CommandPath(sections, res.base, res.args, n) /\ NoDash(res.args, 2, n)) =>
                /\ res.node = CommandOn(sections, res.base, res.args, n)
                /\ res.remaining = Suffix(res.args, n)

\* C1 witness: a Command below a subsection was resolved with an extra token left
C1_Witness ==
    /\ Returned_
    /\ CommandPath(sections, res.base, res.args, 2)
    /\ NoDash(res.args, 2, 2)
    /\ Len(res.args) = 3
    /\ res.node.kind = "Command"
    /\ res.remaining = <<res.args[3]>>

\* C2, as stated: a chain of sections valid through depth d whose next token
\* names nothing resolves to the Section at depth d and the tail that starts
\* at the unmatched token.
C2_Original ==
    Returned_ =>
        \A d \in 0..Len(res.args) :
            BrokenPath(sections, res.base, res.args, d) =>
                /\ res.node = SectionRef(SectionAt(sections, res.base, res.args, d))
                /\ res.remaining = Suffix(res.args, d)

\* C2, amended: the same, for chains none of whose section tokens after the
\* first begins with '-'.
C2_BrokenPathResolves ==
    Returned_ =>
        \A d \in 0..Len(res.args) :
            (BrokenPath(sections, res.base, res.args, d) /\ NoDash(res.args, 2, d)) =>
                /\ res.node = SectionRef(SectionAt(sections, res.base, res.args, d))
                /\ res.remaining = Suffix(res.args, d)

\* C2 witness: two sections were entered, the third token named nothing, and
\* the second section came back with the unmatched token
C2_Witness ==
    /\ Returned_
    /\ BrokenPath(sections, res.base, res.args, 2)
    /\ NoDash(res.args, 2, 2)
    /\ res.node = SectionRef(SectionAt(sections, res.base, res.args, 2))
    /\ res.node.id # res.base
    /\ res.remaining = <<res.args[3]>>

\* C3: the resolver returns after at most one call per token and one more,
\* and what it returns is the starting section, a Section reachable from it
\* or a Command of such a Section, never None.
RECURSIVE ReachableSections(_, _)
ReachableSections(tree, found) ==
    LET more == found \cup { tree[s].subsections[n] :
                             <<s, n>> \in { <<s, n>> \in found \X Names :
                                            n \in DOMAIN tree[s].subsections } }
    IN IF more = found THEN found ELSE ReachableSections(tree, more)

ReachableCommands(tree, base) ==
    { tree[s].commands[n] :
      <<s, n>> \in { <<s, n>> \in ReachableSections(tree, {base}) \X Names :
                     n \in DOMAIN tree[s].commands } }

C3_ReturnsReachableNode ==
    Returned_ =>
        /\ res.calls <= Len(res.args) + 1
        /\ res.node # None
        /\ \/ /\ res.node.kind = "Section"
              /\ res.node.id \in ReachableSections(sections, {res.base})
           \/ /\ res.node.kind = "Command"
              /\ res.node.id \in ReachableCommands(sections, res.base)

\* C3 witness: the resolver went round a Section that contains itself and
\* came back with it
C3_Witness ==
    /\ Returned_
    /\ res.node.kind = "Section"
    /\ res.node.id # RootId
    /\ res.node.id \in ReachableSections(sections, { sections[res.node.id].subsections[n] :
                                                     n \in DOMAIN sections[res.node.id].subsections })
    /\ res.calls = Len(res.args) + 1
    /\ res.calls = 3

\* C4: when the first token names a subsection s (and no command) and the
\* second token begins with '-', the resolver returns s and everything after
\* the first token, in one call: nothing is looked up inside s.
ShortCircuitCase ==
    /\ Returned_
    /\ Len(res.args) > 1
    /\ res.args[1] \in DOMAIN sections[res.base].subsections
    /\ res.args[1] \notin DOMAIN sections[res.base].commands
    /\ startswith(res.args[2], Dash)

C4_OptionShortCircuit ==
    ShortCircuitCase =>
        /\ res.node = SectionRef(sections[res.base].subsections[res.args[1]])
        /\ res.remaining = Suffix(res.args, 1)
        /\ res.calls = 1

\* C4 witness: the short circuit was taken in front of a subsection that has
\* a child named by the option-like token
C4_Witness ==
    /\ ShortCircuitCase
    /\ res.args[2] \in DOMAIN sections[sections[res.base].subsections[res.args[1]]].commands
    /\ res.node.kind = "Section"

(***************************************************************************)
(* Properties of the assembly calls.                                       *)
(***************************************************************************)
Keys(section) == (DOMAIN section.subsections) \cup (DOMAIN section.commands)

AddCalls == {"add_subsection", "add_command", "create_subsection", "create_command"}

\* C5: in no Section is a name a key of both the subsections map and the
\* commands map.
C5_NoSharedName ==
    \A s \in DOMAIN sections :
        (DOMAIN sections[s].subsections) \cap (DOMAIN sections[s].commands) = {}

\* C5 witness: a call that would have given a subsection the name of a
\* command of the same Section has just failed
C5_Witness ==
    /\ last.op \in {"add_subsection", "create_subsection"}
    /\ last.raised = "InvalidStructure"
    /\ last.name \in DOMAIN sections[last.section].commands

\* C6: an add or create call whose name is already a key of the Section
\* raises InvalidStructure and leaves the maps of every Section as they were.
C6_DuplicateAddFails ==
    [][ (last'.op \in AddCalls /\ last'.name \in Keys(sections[last'.section]))
        => (last'.raised = "InvalidStructure" /\ sections' = sections) ]_vars

\* C6 witness: a command was refused under the name of an existing command,
\* which is still there
C6_Witness ==
    /\ last.op \in {"add_command", "create_command"}
    /\ last.raised = "InvalidStructure"
    /\ last.name \in DOMAIN sections[last.section].commands

\* C7, as stated: no Section is its own ancestor and no Section or Command
\* is held by more than one Section.
Children(s) == { sections[s].subsections[n] : n \in DOMAIN sections[s].subsections }

Parents(s) == { p \in DOMAIN sections : s \in Children(p) }

CommandParents(c) ==
    { p \in DOMAIN sections :
        \E n \in DOMAIN sections[p].commands : sections[p].commands[n] = c }

C7_StrictHierarchy ==
    /\ \A s \in DOMAIN sections : s \notin ReachableSections(sections, Children(s))
    /\ \A s \in DOMAIN sections : Cardinality(Parents(s)) <= 1
    /\ \A c \in DOMAIN commands : Cardinality(CommandParents(c)) <= 1

(***************************************************************************)
(* Properties of Command assembly and execution.                           *)
(***************************************************************************)
Executed == exec.state = "returned"

AllOptions == all_options(options, groups, option_groups)

Triggers(o) == Range(name_list(o))

\* The user supplied the Option: the parser acted on one of its triggers
Supplied(o) == o.name \in Range(exec.out.given)

\* C8, as stated: no trigger string belongs to two different Options of the
\* Command, those of its option groups included.
C8_UniqueTriggers ==
    \A i, j \in DOMAIN AllOptions :
        AllOptions[i] # AllOptions[j] => Triggers(AllOptions[i]) \cap Triggers(AllOptions[j]) = {}

\* C9, as stated: when execute raises CommandUsage for missing required
\* options, missing_options holds exactly the required Options the user did
\* not supply.
C9_MissingAreTheAbsent ==
    (Executed /\ exec.out.status = "CommandUsage" /\ exec.out.missing # PyNone) =>
        Range(exec.out.missing.v) = { o \in Range(AllOptions) : o.required /\ ~Supplied(o) }

\* C10, as stated: when the action is invoked it receives, for every Flag of
\* the Command, direct or grouped, True if the flag was supplied and False if
\* it was not.
C10_FlagsAreBooleans ==
    (Executed /\ exec.out.status = "invoked") =>
        \A o \in Range(AllOptions) :
            o.is_flag => exec.out.kwargs[keyword(o)] = PyBool(Supplied(o))

(***************************************************************************)
(* Properties of Cli.run.                                                  *)
(***************************************************************************)
Ran == ran.state = "returned"

\* run resolved args to a Command and called its execute
RanCommand == Ran /\ ran.out.out # NoResult

\* The action of the Command was invoked
Invoked == RanCommand /\ ran.out.out.status = "invoked"

\* C11: when the action of the resolved command is invoked, Cli.run returns
\* EX_OK if the action returns None and the action's own value otherwise.
C11_ExitCodeOfAction ==
    Invoked =>
        /\ ran.out.raised = "none"
        /\ method = PyNone => ran.out.code = PyInt(EX_OK)
        /\ method # PyNone => ran.out.code = method

C11_Witness == Invoked /\ method = PyNone /\ ran.out.code = PyInt(EX_OK)

\* The deepest Section the tokens of args lead to from the root, each token
\* naming a subsection of the Section before it
RECURSIVE Deepest(_, _)
Deepest(args, d) ==
    IF d < Len(args) /\ SectionAt(sections, RootId, args, d + 1) # NoSection
    THEN Deepest(args, d + 1)
    ELSE SectionAt(sections, RootId, args, d)

\* C12: when args does not resolve to a Command, Cli.run raises nothing,
\* invokes no action, writes the listing of the Section the resolver found
\* (the deepest Section on the path when no later token is an option) and
\* returns EX_USAGE.
C12_UnresolvedPrintsSection ==
    (Ran /\ find_closest_match(sections, RootId, ran.args).node.kind # "Command") =>
        /\ ran.out.raised = "none"
        /\ ran.out.out = NoResult
        /\ ran.out.printed = find_closest_match(sections, RootId, ran.args).node
        /\ ran.out.printed.kind = "Section"
        /\ NoDash(ran.args, 2, Len(ran.args)) =>
              ran.out.printed.id = Deepest(ran.args, 0)
        /\ ran.out.code = PyInt(EX_USAGE)

C12_Witness ==
    /\ Ran
    /\ Len(ran.args) = 2
    /\ ran.out.printed.kind = "Section"
    /\ ran.out.printed.id # RootId
    /\ ran.out.remaining_args = <<ran.args[2]>>
    /\ ran.out.code = PyInt(EX_USAGE)

\* C13: a CommandUsage raised by Command.execute does not leave Cli.run: run
\* writes the usage of the command and returns EX_USAGE.
C13_CommandUsageIsCaught ==
    /\ Ran => ran.out.raised # "CommandUsage"
    /\ (RanCommand /\ ran.out.out.status = "CommandUsage") =>
          /\ ran.out.raised = "none"
          /\ ran.out.printed = ran.out.node
          /\ ran.out.printed.kind = "Command"
          /\ ran.out.code = PyInt(EX_USAGE)

C13_Witness ==
    /\ RanCommand
    /\ ran.out.out.status = "CommandUsage"
    /\ ran.out.out.unexpected # PyNone
    /\ ran.out.code = PyInt(EX_USAGE)

\* The exceptions a failure to parse the arguments shows as
ParsingFailures ==
    { "CommandUsage", "OptionValidationFailed", "SystemExit", "Unparsable", "MissingRequired" }

\* C19, as stated: whatever the parser of the command, no parsing failure
\* leaves Cli.run as an exception or a process exit.
C19_NoParsingFailureLeavesRun == Ran => ran.out.raised \notin ParsingFailures

\* C20, as stated: a Command with the PassThroughParser invokes its action
\* with the tokens after the command's name as positional arguments and no
\* named arguments.
C20_PassThroughPositional ==
    (RanCommand /\ parser = PassThroughParser) =>
        /\ ran.out.out.status = "invoked"
        /\ ran.out.out.arg_list = ran.out.remaining_args
        /\ ran.out.out.kwargs = << >>

(***************************************************************************)
(* Properties of the validate and parse functions of Options.              *)
(***************************************************************************)
\* The calls of hooks that Command.execute made, in order
Trace == ran.out.out.trace

\* The user supplied the Option o in the args of the last run
SuppliedToRun(o) == o.name \in Range(ran.out.out.given)

\* C14: when a validate_func or parse_func raises ValueError or TypeError,
\* a message naming the option is written, the action is not invoked and
\* Cli.run returns EX_DATAERR, which is not EX_USAGE.
C14_HookFailureIsDataError ==
    RanCommand =>
        \A i \in DOMAIN Trace :
            Trace[i].raised \in {"ValueError", "TypeError"} =>
                /\ ran.out.out.written = <<Trace[i].option>>
                /\ ran.out.out.status # "invoked"
                /\ ran.out.raised = "none"
                /\ ran.out.code = PyInt(EX_DATAERR)
                /\ EX_DATAERR # EX_USAGE

C14_Witness ==
    /\ RanCommand
    /\ \E i \in DOMAIN Trace : Trace[i].hook = "parse" /\ Trace[i].raised = "ValueError"
    /\ ran.out.code = PyInt(EX_DATAERR)

\* The token of args is handed over as it was typed
Raw(value) == value.t = "str" /\ value.v \in Range(ran.out.remaining_args)

HasBothHooks(o) == o.validate_func # "None" /\ o.parse_func # "None"

\* C15: for an Option with validate_func and parse_func, parse_func is called
\* only after validate_func was called on the raw value and did not fail, and
\* the action receives what parse_func returned.
C15_ValidateThenParse ==
    RanCommand =>
        \A o \in Range(AllOptions) :
            (HasBothHooks(o) /\ ~o.allow_multiple) =>
                /\ \A j \in DOMAIN Trace :
                      (Trace[j].hook = "parse" /\ Trace[j].option = o.name) =>
                          \E i \in 1..(j - 1) :
                              /\ Trace[i].hook = "validate"
                              /\ Trace[i].option = o.name
                              /\ Trace[i].raised = "none"
                              /\ Raw(Trace[i].value)
                /\ (Invoked /\ SuppliedToRun(o)) =>
                      \E j \in DOMAIN Trace :
                          /\ Trace[j].hook = "parse"
                          /\ Trace[j].option = o.name
                          /\ ran.out.out.kwargs[keyword(o)] = Trace[j].result

C15_Witness ==
    /\ Invoked
    /\ \E o \in Range(AllOptions) :
          /\ HasBothHooks(o)
          /\ SuppliedToRun(o)
          /\ ran.out.out.kwargs[keyword(o)] = PyInt(1)

\* C16, as stated: a hook of an Option is called only if the user supplied
\* the Option in the args.
C16_HooksOnlyForSupplied ==
    RanCommand =>
        \A i \in DOMAIN Trace : Trace[i].option \in Range(ran.out.out.given)

\* A required Option of the Command is not among the args of the last run
RequiredOmitted == \E o \in Range(AllOptions) : o.required /\ ~SuppliedToRun(o)

\* A hook raised ValueError or TypeError during the last run
HookFailed == \E i \in DOMAIN Trace : Trace[i].raised \in {"ValueError", "TypeError"}

Called(hook, o) == \E i \in DOMAIN Trace : Trace[i].hook = hook /\ Trace[i].option = o.name

\* C17, as stated: the required-option check comes before the hooks, so a
\* run that omits a required Option and supplies an invalid value ends in
\* CommandUsage and returns EX_USAGE.
C17_Original ==
    (RanCommand /\ RequiredOmitted /\ HookFailed) =>
        /\ ran.out.out.status = "CommandUsage"
        /\ ran.out.code = PyInt(EX_USAGE)

\* C17, amended: the hooks come before the required-option check. When
\* CommandUsage is raised for missing options, the hooks of every supplied
\* Option have been called already and none failed; a run that omits a
\* required Option and supplies an invalid value returns EX_DATAERR; and the
\* action is invoked only with a value for every required Option.
C17_HooksBeforeRequiredCheck ==
    (RanCommand /\ ran.out.raised = "none") =>
        /\ (ran.out.out.status = "CommandUsage" /\ ran.out.out.missing # PyNone) =>
              /\ ~HookFailed
              /\ \A o \in Range(AllOptions) :
                    SuppliedToRun(o) =>
                        /\ o.validate_func # "None" => Called("validate", o)
                        /\ o.parse_func # "None" => Called("parse", o)
        /\ (RequiredOmitted /\ HookFailed) =>
              /\ ran.out.out.status = "returned"
              /\ ran.out.code = PyInt(EX_DATAERR)
        /\ Invoked =>
              \A o \in Range(AllOptions) :
                  o.required => ran.out.out.kwargs[keyword(o)] # PyNone

C17_Witness ==
    /\ RanCommand
    /\ RequiredOmitted
    /\ HookFailed
    /\ ran.out.code = PyInt(EX_DATAERR)

\* The i-th hook call raised something that is neither ValueError nor TypeError
OtherFailure(i) == Trace[i].raised \notin {"none", "ValueError", "TypeError"}

\* The exceptions that Command.execute and Cli.run catch themselves
OwnExceptions == {"CommandUsage", "OptionValidationFailed"}

\* C18, as stated: an exception of a hook other than ValueError and TypeError
\* writes no validation message, gives no EX_DATAERR and leaves Cli.run.
C18_Original ==
    RanCommand =>
        \A i \in DOMAIN Trace :
            OtherFailure(i) =>
                /\ ran.out.out.written = << >>
                /\ ran.out.code # PyInt(EX_DATAERR)
                /\ ran.out.raised = Trace[i].raised

\* C18, amended: such an exception writes no validation message and the
\* action is not invoked; it leaves Command.execute and Cli.run unless it is
\* OptionValidationFailed, for which run returns EX_DATAERR, or CommandUsage,
\* for which run returns EX_USAGE.
C18_OtherExceptionsPropagate ==
    RanCommand =>
        \A i \in DOMAIN Trace :
            OtherFailure(i) =>
                /\ ran.out.out.written = << >>
                /\ ran.out.out.status # "invoked"
                /\ Trace[i].raised \notin OwnExceptions =>
                      /\ ran.out.out.status = Trace[i].raised
                      /\ ran.out.raised = Trace[i].raised
                      /\ ran.out.code = PyNone
                /\ Trace[i].raised = "OptionValidationFailed" =>
                      ran.out.raised = "none" /\ ran.out.code = PyInt(EX_DATAERR)
                /\ Trace[i].raised = "CommandUsage" =>
                      ran.out.raised = "none" /\ ran.out.code = PyInt(EX_USAGE)

C18_Witness ==
    /\ RanCommand
    /\ \E i \in DOMAIN Trace : Trace[i].raised = "AttributeError"
    /\ ran.out.raised = "AttributeError"
    /\ ran.out.out.written = << >>

(***************************************************************************)
(* Properties of the default parser.                                       *)
(***************************************************************************)
\* The values the user gave for the option string `name`, in the order
\* given, in a vector where every token that starts with a dash is an option
\* followed by its value
RECURSIVE ValuesFor(_, _)
ValuesFor(name, args) ==
    IF Len(args) < 2 THEN << >>
    ELSE IF args[1] = name
         THEN <<PyStr(args[2])>> \o ValuesFor(name, SubSeq(args, 3, Len(args)))
    ELSE IF startswith(args[1], Dash) THEN ValuesFor(name, SubSeq(args, 3, Len(args)))
    ELSE ValuesFor(name, Tail(args))

\* C21, as stated: with the default parser, an allow_multiple Option whose
\* trigger was supplied n >= 1 times reaches the action as the list of the n
\* supplied values, in the order the user gave them.
C21_MultipleInOrder ==
    (Executed /\ parser = PyNone /\ exec.out.status = "invoked") =>
        \A o \in Range(AllOptions) :
            (o.allow_multiple /\ Len(ValuesFor(o.name, exec.args)) >= 1) =>
                exec.out.kwargs[keyword(o)] = PyList(ValuesFor(o.name, exec.args))

(***************************************************************************)
(* Properties of UnknownArgsParser.parse_args.                             *)
(***************************************************************************)
ParseReturned == parse_result.state = "returned" /\ parse_result.out.raised = "none"

ParseRaised == parse_result.state = "returned" /\ parse_result.out.raised # "none"

\* The positions of args, from i on, that a pairwise scan reads as keys: a
\* key takes the next token with it unless that token starts with a dash
RECURSIVE KeyPositions(_, _)
KeyPositions(args, i) ==
    IF i > Len(args) THEN {}
    ELSE IF i = Len(args) \/ startswith(args[i + 1], Dash)
         THEN {i} \cup KeyPositions(args, i + 1)
         ELSE {i} \cup KeyPositions(args, i + 2)

\* A key token without its leading '--' or '-'
KeyOf(token) ==
    IF Len(token) >= 2 /\ token[1] = Dash /\ token[2] = Dash
    THEN SubSeq(token, 3, Len(token))
    ELSE SubSeq(token, 2, Len(token))

\* What the key at position i stands for by itself: True when it is the last
\* token or a dash token follows, else the token that follows
ValueAt(args, i) ==
    IF i = Len(args) \/ startswith(args[i + 1], Dash) THEN PyBool(TRUE)
    ELSE PyStr(args[i + 1])

\* C22: when UnknownArgsParser.parse_args returns, it has read args
\* pairwise: every token at a key position starts with a dash, the names
\* stored are those tokens without their leading '--' or '-', a key that
\* occurs once holds True when it is the last token or a dash token follows
\* and holds the following token otherwise, and the positional result is
\* empty.
C22_PairwiseScan ==
    ParseReturned =>
        LET args == parse_result.args
            d == parse_result.out.options.dict
            keys == KeyPositions(args, 1)
        IN /\ parse_result.out.remaining_args = << >>
           /\ \A i \in keys : startswith(args[i], Dash)
           /\ DOMAIN d = { KeyOf(args[i]) : i \in keys }
           /\ \A i \in keys :
                 (\A j \in keys : KeyOf(args[j]) = KeyOf(args[i]) => j = i) =>
                     d[KeyOf(args[i])] = ValueAt(args, i)

\* C22 witness: parse_args returned for a vector with a key that took the
\* token after it and a key that stands alone, stored under different names.
C22_Witness ==
    /\ ParseReturned
    /\ \E i, j \in KeyPositions(parse_result.args, 1) :
          /\ KeyOf(parse_result.args[i]) # KeyOf(parse_result.args[j])
          /\ ValueAt(parse_result.args, i) = PyBool(TRUE)
          /\ ValueAt(parse_result.args, j) # PyBool(TRUE)
          /\ IsLongOpt(parse_result.args[i])
          /\ ~IsLongOpt(parse_result.args[j])

\* What the occurrences of the key `name` stand for, from position i on and
\* in the order of the scan
RECURSIVE ValuesOfKey(_, _, _)
ValuesOfKey(args, i, name) ==
    IF i > Len(args) THEN << >>
    ELSE (IF KeyOf(args[i]) = name THEN <<ValueAt(args, i)>> ELSE << >>)
         \o ValuesOfKey(args, IF ValueAt(args, i) = PyBool(TRUE) THEN i + 1 ELSE i + 2, name)

IsStr(value) == value.t = "str"

\* C23, as stated: when parse_args returns, a key that occurred more than
\* once holds a list, and the values supplied for it are all in that list in
\* the order supplied: no value of an earlier occurrence is lost.
C23_RepeatedKeysAccumulate ==
    ParseReturned =>
        \A name \in DOMAIN parse_result.out.options.dict :
            LET supplied == ValuesOfKey(parse_result.args, 1, name)
                stored == parse_result.out.options.dict[name]
            IN (Len(supplied) > 1 /\ SelectSeq(supplied, IsStr) # << >>) =>
                   /\ stored.t = "list"
                   /\ SelectSeq(stored.v, IsStr) = SelectSeq(supplied, IsStr)

\* The scan of args meets nothing it aborts for: every key position holds a
\* dash token that is not a request for help
Scannable(args) ==
    \A i \in KeyPositions(args, 1) :
        startswith(args[i], Dash) /\ KeyOf(args[i]) \notin { <<"h">>, <<"h", "e", "l", "p">> }

\* Some required name of the parser is no token of args
RequiredMissing(args) ==
    \E i \in DOMAIN parser.required_options : parser.required_options[i] \notin Range(args)

\* How the parser aborts with the given exception class
Aborted(exception_class) ==
    /\ parse_result.out.raised = IF parser.exit_on_abort THEN "SystemExit" ELSE exception_class
    /\ parse_result.out.written = <<UsageLine>>

\* C24, as stated: parse_args writes the usage and aborts (MissingRequired,
\* or exit when exit_on_abort is set) exactly when some required name is no
\* token of args, and returns when every required name is one.
C24_Original ==
    parse_result.state = "returned" =>
        IF RequiredMissing(parse_result.args) THEN Aborted("MissingRequired")
        ELSE parse_result.out.raised = "none"

\* C24, amended: the required names are checked after the scan. A scan that aborts
\* does so as Unparsable whether or not a required name is missing; after a
\* scan that went through, parse_args writes the usage and aborts
\* (MissingRequired, or exit when exit_on_abort is set) exactly when some
\* required name is no token of args, and returns when every one is.
C24_RequiredCheckedAfterScan ==
    parse_result.state = "returned" =>
        IF ~Scannable(parse_result.args) THEN Aborted("Unparsable")
        ELSE IF RequiredMissing(parse_result.args) THEN Aborted("MissingRequired")
        ELSE parse_result.out.raised = "none" /\ parse_result.out.written = << >>

\* C24 witness: one required name was given with a value, another was not
\* given, and parse_args raised MissingRequired.
C24_Witness ==
    /\ parse_result.state = "returned"
    /\ parse_result.out.raised = "MissingRequired"
    /\ DashA \in Range(parse_result.args)
    /\ DashB \notin Range(parse_result.args)
    /\ <<"1">> \in Range(parse_result.args)
    /\ parser.required_options = <<DashA, DashB>>

HelpTokens == { <<"-", "h">>, <<"-", "-", "h", "e", "l", "p">> }

\* C25: whenever -h or --help is a token of args, at whatever position,
\* parse_args writes the usage and aborts (Unparsable, or exit when
\* exit_on_abort is set); it never returns a parsed result.
C25_HelpAlwaysAborts ==
    (parse_result.state = "returned" /\ Range(parse_result.args) \cap HelpTokens # {}) =>
        Aborted("Unparsable")

\* C25 witness: --help came after a key with its value and before another
\* token, and parse_args raised Unparsable.
C25_Witness ==
    /\ parse_result.state = "returned"
    /\ Len(parse_result.args) = 4
    /\ parse_result.args[1] = DashA
    /\ parse_result.args[2] = <<"1">>
    /\ parse_result.args[3] = <<"-", "-", "h", "e", "l", "p">>
    /\ parse_result.out.raised = "Unparsable"
    /\ parse_result.out.options = PyNone

(***************************************************************************)
(* Properties of removal.                                                  *)
(***************************************************************************)
RemoveCalls == {"remove_subsection", "remove_command"}

\* The map of Section s that the remove call op pops from, and the other one
PoppedMap(tree, s, op) ==
    IF op = "remove_subsection" THEN tree[s].subsections ELSE tree[s].commands

OtherMap(tree, s, op) ==
    IF op = "remove_subsection" THEN tree[s].commands ELSE tree[s].subsections

\* The reference the remove call op returns for the object id
PoppedRef(op, id) == IF op = "remove_subsection" THEN SectionRef(id) ELSE CommandRef(id)

\* C26: remove_subsection(name) and remove_command(name) raise nothing.
\* When the name is a key of the map they pop from, they return the object
\* stored under it and delete that entry and nothing else, and the name is
\* then a key of neither map of the Section, so that it can be added again
\* as a subsection or as a command; when it is no key of that map they
\* return None and leave every map as it was.
C26_RemoveOnlyThatEntry ==
    [][ last'.op \in RemoveCalls =>
          LET op == last'.op
              p == last'.section
              name == last'.name
              before == PoppedMap(sections, p, op)
              after == PoppedMap(sections', p, op)
          IN /\ last'.raised = "none"
             /\ commands' = commands
             /\ DOMAIN sections' = DOMAIN sections
             /\ \A s \in (DOMAIN sections) \ {p} : sections'[s] = sections[s]
             /\ OtherMap(sections', p, op) = OtherMap(sections, p, op)
             /\ sections'[p].name = sections[p].name
             /\ \A k \in (DOMAIN before) \ {name} : k \in DOMAIN after /\ after[k] = before[k]
             /\ IF name \in DOMAIN before
                THEN /\ last'.value = PoppedRef(op, before[name])
                     /\ DOMAIN after = (DOMAIN before) \ {name}
                     /\ ~verify_new_structure(sections'[p], name)
                ELSE /\ last'.value = None
                     /\ sections' = sections ]_vars

\* C26 witness: a subsection was removed from a Section that still holds a
\* command.
C26_Witness ==
    /\ last.op = "remove_subsection"
    /\ last.value # None
    /\ last.name \notin DOMAIN sections[last.section].subsections
    /\ DOMAIN sections[last.section].commands # {}

(***************************************************************************)
(* Further properties of the resolver.                                     *)
(***************************************************************************)
\* C27: a call of _find_closest_match changes neither the Sections nor the
\* Commands, what it returns as remaining is args without its first n
\* tokens, and those n tokens name, one after the other, the subsections and
\* at last the node on the path from the starting Section to the node
\* returned (n = 0 for the starting Section itself).
C27_ConsumedPrefixSpellsPath ==
    [][ res'.state = "returned" =>
          LET args == res'.args
              n == Len(args) - Len(res'.remaining)
          IN /\ sections' = sections
             /\ commands' = commands
             /\ n \in 0..Len(args)
             /\ res'.remaining = Suffix(args, n)
             /\ res'.node # None
             /\ res'.node.kind = "Section" =>
                    SectionAt(sections, res'.base, args, n) = res'.node.id
             /\ res'.node.kind = "Command" =>
                    /\ CommandPath(sections, res'.base, args, n)
                    /\ res'.node = CommandOn(sections, res'.base, args, n) ]_vars

\* C27 witness: two tokens were consumed to reach a subsection of a
\* subsection and the third token was left.
C27_Witness ==
    /\ Returned_
    /\ Len(res.args) = 3
    /\ Len(res.remaining) = 1
    /\ res.node.kind = "Section"
    /\ res.node.id = SectionAt(sections, res.base, res.args, 2)
    /\ res.node.id # RootId

\* The first d tokens of args were followed from base through subsections,
\* none of them naming a command and none after the first beginning with '-'
Entered(tree, base, args, d) ==
    /\ d \in 1..Len(args)
    /\ SectionAt(tree, base, args, d) # NoSection
    /\ NoDash(args, 2, d)
    /\ \A j \in 1..d : args[j] \notin DOMAIN tree[SectionAt(tree, base, args, j - 1)].commands

\* C28: when a subsection s was entered by name and the token after its name
\* begins with '-', the resolver returns s and the tokens from that one on,
\* whatever s holds under that token; a first token that names a command of
\* the starting Section resolves to that command even when it begins with
\* '-'.
C28_ShortCircuitBeforeLookup ==
    Returned_ =>
        /\ \A d \in 1..(Len(res.args) - 1) :
              (Entered(sections, res.base, res.args, d) /\ startswith(res.args[d + 1], Dash)) =>
                  /\ res.node = SectionRef(SectionAt(sections, res.base, res.args, d))
                  /\ res.remaining = Suffix(res.args, d)
        /\ (Len(res.args) > 0 /\ res.args[1] \in DOMAIN sections[res.base].commands) =>
              /\ res.node = CommandRef(sections[res.base].commands[res.args[1]])
              /\ res.remaining = Suffix(res.args, 1)

\* C28 witness: below the second subsection of the path the third token,
\* which begins with '-', names a command, and the resolver returned that
\* subsection with the token.
C28_Witness ==
    /\ Returned_
    /\ Len(res.args) = 3
    /\ Entered(sections, res.base, res.args, 2)
    /\ startswith(res.args[3], Dash)
    /\ res.args[3] \in DOMAIN sections[SectionAt(sections, res.base, res.args, 2)].commands
    /\ res.node.kind = "Section"
    /\ res.remaining = <<res.args[3]>>

(***************************************************************************)
(* Further properties of Command.execute.                                  *)
(***************************************************************************)
\* The parse_func of the Option o was called and returned None
ParsedToNone(o) ==
    \E i \in DOMAIN exec.out.trace :
        /\ exec.out.trace[i].hook = "parse"
        /\ exec.out.trace[i].option = o.name
        /\ exec.out.trace[i].raised = "none"
        /\ exec.out.trace[i].result = PyNone

NoHookRaised == \A i \in DOMAIN exec.out.trace : exec.out.trace[i].raised = "none"

HookTrace == exec.out.trace

\* The Options the parser gave a value other than None: those the user
\* supplied and those with a default
HasValue(o) == Supplied(o) \/ o.default # PyNone

\* Where the Option named `name` stands among the direct options followed
\* by those of the option groups of the Command
Declared(name) ==
    LET direct == { k \in DOMAIN options : options[k].name = name }
        grouped == { k \in DOMAIN groups[GroupId] : groups[GroupId][k].name = name }
    IN IF direct # {} THEN CHOOSE k \in direct : TRUE
       ELSE Len(options) + (CHOOSE k \in grouped : TRUE)

CaughtByHooks == {"ValueError", "TypeError"}

\* C30: in the calls that parse_arguments makes, no validate_func is called
\* after a parse_func; when a parse_func is called, the validate_func of
\* every Option that has one and has a value was called before; the
\* validate_func calls, and the parse_func calls, follow the order of the
\* direct options and then the grouped ones; and a call that raised
\* ValueError or TypeError is the last call made, execute returning the
\* data error code without invoking the action.
C30_ValidateAllThenParse ==
    Executed =>
        /\ \A i, j \in DOMAIN HookTrace :
              i < j => /\ ~(HookTrace[i].hook = "parse" /\ HookTrace[j].hook = "validate")
                       /\ HookTrace[i].hook = HookTrace[j].hook =>
                              Declared(HookTrace[i].option) < Declared(HookTrace[j].option)
                       /\ HookTrace[i].raised \notin CaughtByHooks
        /\ (\E j \in DOMAIN HookTrace : HookTrace[j].hook = "parse") =>
              \A o \in Range(AllOptions) :
                  (o.validate_func # "None" /\ HasValue(o)) =>
                      \E i \in DOMAIN HookTrace :
                          /\ HookTrace[i].hook = "validate"
                          /\ HookTrace[i].option = o.name
                          /\ HookTrace[i].raised = "none"
        /\ (\E i \in DOMAIN HookTrace : HookTrace[i].raised \in CaughtByHooks) =>
              /\ exec.out.status = "returned"
              /\ exec.out.code = EX_DATAERR

\* C30 witness: the validate_func of a direct option and then that of a
\* grouped option were called, and only then the parse_func of the direct
\* option and that of the grouped one.
C30_Witness ==
    /\ Executed
    /\ Len(options) = 1
    /\ Len(HookTrace) = 4
    /\ HookTrace[1].hook = "validate" /\ HookTrace[1].option = options[1].name
    /\ HookTrace[2].hook = "validate" /\ HookTrace[2].option = groups[GroupId][1].name
    /\ HookTrace[3].hook = "parse" /\ HookTrace[3].option = options[1].name
    /\ HookTrace[4].hook = "parse" /\ HookTrace[4].option = groups[GroupId][1].name
    /\ exec.out.status = "invoked"

====
